---------------------------- MODULE Spec2Model ----------------------------
(***************************************************************************)
(* A model of src/dynimage_fitsio.rs: FitsCompression (extension,          *)
(* to_string), DynamicImage::image_type, DynamicImage::image_size and      *)
(* DynamicImage::savefits.                                                 *)
(*                                                                         *)
(* savefits is modelled statement by statement.  Its collaborators are the *)
(* environment: the file system (Path::exists, Path::is_dir,               *)
(* std::fs::remove_file), the system clock (SystemTime::now) and the FITS  *)
(* writer (FitsFile::create ... open, primary_hdu, write_key,              *)
(* create_image, write_image).  Every call into the file system or the     *)
(* writer may fail; a failure is a nondeterministic choice of the          *)
(* environment.                                                            *)
(*                                                                         *)
(* A path is the sequence of the dot-separated pieces of its file name:    *)
(* <<"out">> is out, <<"out","fits">> is out.fits, <<"","out">> is .out,   *)
(* <<"out","">> is "out." and <<"","","">> is "..", which has no file name.*)
(* Times are integers, in microseconds since the Unix epoch.               *)
(***************************************************************************)
EXTENDS Integers, Sequences, FiniteSets, TLC

VARIABLES
    fs,          \* the file system: name -> [kind, hdus]
    clock,       \* the last reading of the system clock
    dest,        \* the destination the caller saves to (argument `path`)
    compress,    \* the compression the caller saves with (argument `compress`)
    calls,       \* number of savefits calls made so far
    pc,          \* position inside savefits, "idle" before the first call
    self,        \* argument: the image (&self)
    overwrite,   \* argument: the overwrite flag
    cameraname,  \* local `cameraname`
    timestamp,   \* local `timestamp` (the formatted DATE-OBS text)
    ts,          \* local `ts` (milliseconds since the epoch)
    img_desc,    \* local `img_desc`
    path,        \* local `path` (the PathBuf)
    fptr,        \* local `fptr`: the NewFitsFile builder, then the open FitsFile
    hdu,         \* local `hdu`: index of the HDU in the file, 0 when unset
    idx,         \* position in the metadata keys / the extended pairs
    result,      \* what the call returned
    fs0,         \* history: the file system when the call started
    trace,       \* history: the writer calls of this call, in order
    removed,     \* history: the names savefits removed in this call
    faulted,     \* history: the environment injected a fault
    prev,        \* history: the call before this one
    size_out     \* what image_size returned (specification SizeSpec)

vars == <<fs, clock, dest, compress, calls, pc, self, overwrite, cameraname,
          timestamp, ts, img_desc, path, fptr, hdu, idx, result, fs0, trace,
          removed, faulted, prev, size_out>>

---------------------------------------------------------------------------
(* Bounds of the model *)

MaxCalls == 2
MaxW == 3
MaxH == 3
MaxExt == 2

---------------------------------------------------------------------------
(* FitsCompression *)

FitsCompression == {"None", "Gzip", "Rice", "Hcompress", "Hsmooth", "Bzip2", "Plio"}

extension(c) ==
    CASE c = "None"      -> "fits"
      [] c = "Gzip"      -> "fits[compress G]"
      [] c = "Rice"      -> "fits[compress R]"
      [] c = "Hcompress" -> "fits[compress H]"
      [] c = "Hsmooth"   -> "fits[compress HS]"
      [] c = "Bzip2"     -> "fits[compress B]"
      [] c = "Plio"      -> "fits[compress P]"

to_string(c) ==
    CASE c = "None"      -> "uncomp"
      [] c = "Gzip"      -> "gzip"
      [] c = "Rice"      -> "rice"
      [] c = "Hcompress" -> "hcompress"
      [] c = "Hsmooth"   -> "hscompress"
      [] c = "Bzip2"     -> "bzip2"
      [] c = "Plio"      -> "plio"

---------------------------------------------------------------------------
(* DynamicImage: the variant tag, width, height, the pixel buffer and the  *)
(* optional metadata.                                                      *)

Variants == {"ImageLuma8", "ImageLumaA8", "ImageRgb8", "ImageRgba8",
             "ImageLuma16", "ImageLumaA16", "ImageRgb16", "ImageRgba16",
             "ImageRgb32F", "ImageRgba32F"}

image_type(img) ==
    IF img.variant \in {"ImageLuma8", "ImageLumaA8", "ImageRgb8", "ImageRgba8"}
    THEN "UnsignedByte"
    ELSE IF img.variant \in {"ImageLuma16", "ImageLumaA16", "ImageRgb16", "ImageRgba16"}
    THEN "UnsignedShort"
    ELSE "Float"

numpix(img) ==
    CASE img.variant \in {"ImageLuma8", "ImageLuma16"}   -> 1
      [] img.variant \in {"ImageLumaA8", "ImageLumaA16"} -> 2
      [] img.variant \in {"ImageRgb8", "ImageRgb16"}     -> 3
      [] img.variant \in {"ImageRgba8", "ImageRgba16"}   -> 4
      [] img.variant = "ImageRgb32F"                     -> 3
      [] img.variant = "ImageRgba32F"                    -> 4

(* image_size with width and height exchanged *)
image_size_WidthFirst(img) ==
    IF numpix(img) = 1
    THEN <<img.width, img.height>>
    ELSE <<img.width, img.height, numpix(img)>>

image_size(img) ==
    IF numpix(img) = 1
    THEN <<img.height, img.width>>
    ELSE <<img.height, img.width, numpix(img)>>


---------------------------------------------------------------------------
(* Values written into header records by write_key: text, integers,        *)
(* floating point numbers (num / den) and formatted date-times.            *)

Text(s) == [kind |-> "text", s |-> s, n |-> 0, f |-> 1]
IntVal(n) == [kind |-> "int", s |-> "", n |-> n, f |-> 1]
FloatVal(num, den) == [kind |-> "f64", s |-> "", n |-> num, f |-> den]

(* Time.  A SystemTime is a number of microseconds since UNIX_EPOCH.       *)
MicrosPerSec == 1000000
MicrosPerMilli == 1000
NanosPerSec == 1000000000

(* DateTime<Utc>::format("%Y-%m-%dT%H:%M:%S%.6f"): the calendar fields     *)
(* down to the second (kept as the whole seconds they denote) and six      *)
(* fractional digits.                                                      *)
format(t) == [kind |-> "text", s |-> "%Y-%m-%dT%H:%M:%S%.6f",
              n |-> t \div MicrosPerSec, f |-> t % MicrosPerSec]

(* SystemTime::duration_since(UNIX_EPOCH): an error for a time before the  *)
(* epoch; Duration::as_millis truncates to whole milliseconds.  The cast   *)
(* `as u64` changes no value a clock of this era gives.                    *)
duration_since_epoch_ok(t) == t >= 0
as_millis(t) == t \div MicrosPerMilli

(* The readings SystemTime::now() may give after a reading of `c`.         *)
NowValues == {1999, 2000}
Now(c) == {t \in NowValues : t >= c}

---------------------------------------------------------------------------
(* Metadata (the ImageMetaData the image may carry) *)

ExtNames == <<"EXT1", "EXT2", "EXT3", "EXT4">>
ExtPair(i) == [name |-> ExtNames[i], value |-> ExtNames[i]]

Meta(t, n) ==
    [camera_name |-> "cam1", timestamp |-> t, binning |-> <<1, 2>>,
     pixel_size |-> <<3, 4>>, exposure |-> [secs |-> 1, nanos |-> 500000000],
     temperature |-> -10, origin |-> <<5, 6>>, offset |-> 7,
     gain |-> <<10, 0, 100>>,
     extended_metadata |-> [i \in 1..n |-> ExtPair(i)]]

(* Option<&ImageMetaData> is a sequence of length 0 or 1. *)
metadata(img) == img.meta

(* Duration::as_secs_f64 *)
as_secs_f64(d) == FloatVal(d.secs * NanosPerSec + d.nanos, NanosPerSec)

(* The images savefits is called with: two mono images without metadata    *)
(* that differ in their pixels only, a colour image with metadata and      *)
(* extended pairs, and one whose metadata timestamp is before the epoch.   *)
Images ==
    { [variant |-> "ImageLuma8", width |-> 2, height |-> 1, pixels |-> "A",
       meta |-> <<>>],
      [variant |-> "ImageLuma8", width |-> 2, height |-> 1, pixels |-> "B",
       meta |-> <<>>],
      [variant |-> "ImageRgb16", width |-> 1, height |-> 2, pixels |-> "A",
       meta |-> <<Meta(1234567, MaxExt)>>],
      [variant |-> "ImageRgba32F", width |-> 1, height |-> 1, pixels |-> "B",
       meta |-> <<Meta(-1, 0)>>] }

(* inner_pixels(): the flattened sample view of the pixel buffer *)
inner_pixels(img) == img.pixels

---------------------------------------------------------------------------
(* Paths *)

Paths == { <<"out">>, <<"out", "tar">>, <<"out", "fits">>, <<"", "out">>,
           <<"out", "">>, <<"", "", "">> }

(* Path::file_name: None for a path that ends in ".." *)
has_file_name(p) == p # <<"", "", "">>

(* Path::file_stem: the file name up to its last dot; the whole name when  *)
(* it has no dot or only a leading one.                                    *)
file_stem(p) ==
    IF Len(p) = 1 THEN p
    ELSE IF SubSeq(p, 1, Len(p) - 1) = <<"">> THEN p
    ELSE SubSeq(p, 1, Len(p) - 1)

(* PathBuf::set_extension: nothing for a path with no file name; otherwise *)
(* truncate to the stem and push "." and the extension, if not empty.      *)
set_extension(p, ext) ==
    IF ~has_file_name(p) THEN p
    ELSE IF ext = "" THEN file_stem(p)
    ELSE Append(file_stem(p), ext)

Names == Paths \cup { set_extension(p, extension("None")) : p \in Paths }

---------------------------------------------------------------------------
(* The file system *)

Absent == [kind |-> "absent", hdus |-> <<>>]
Dir == [kind |-> "dir", hdus |-> <<>>]
File(h) == [kind |-> "file", hdus |-> h]
(* a regular file this program did not write *)
Foreign == File(<<>>)

exists(f, p) == f[p].kind # "absent"
is_dir(f, p) == f[p].kind = "dir"
is_file(f, p) == f[p].kind = "file"

---------------------------------------------------------------------------
(* The FITS writer *)

(* The writer takes what stands in square brackets at the end of a file    *)
(* name as a qualifier, not as part of the name of the file on disk.       *)
StripQualifier(c) ==
    IF c \in { extension(m) : m \in FitsCompression \ {"None"} }
    THEN extension("None") ELSE c

DiskName(p) == [i \in 1..Len(p) |-> IF i = Len(p) THEN StripQualifier(p[i]) ELSE p[i]]

NewHdu(name, desc) == [name |-> name, desc |-> desc, keys |-> <<>>, data |-> ""]

(* FitsFile::create(path) with the builder's fields *)
NoFile == [path |-> <<>>, overwrite |-> FALSE, desc |-> <<>>, open |-> FALSE]

(* NewFitsFile::open can create the file `disk` when nothing is there, or  *)
(* when a file is there, overwrite was asked for and the writer honours it.*)
CanCreate(f, builder, honoured) ==
    LET disk == DiskName(builder.path) IN
    \/ f[disk].kind = "absent"
    \/ f[disk].kind = "file" /\ builder.overwrite /\ honoured

(* FitsHdu::write_key appends a record to the HDU *)
write_key(f, disk, h, k, v) ==
    [f EXCEPT ![disk].hdus[h].keys = Append(@, <<k, v>>)]

(* FitsHdu::write_image stores the samples in the HDU *)
write_image(f, disk, h, data) == [f EXCEPT ![disk].hdus[h].data = data]

(* FitsFile::create_image appends a named HDU *)
create_image(f, disk, name, desc) ==
    [f EXCEPT ![disk].hdus = Append(@, NewHdu(name, <<desc>>))]

---------------------------------------------------------------------------
(* savefits *)

NoResult == [tag |-> "none", path |-> <<>>, err |-> ""]
Ok(p) == [tag |-> "Ok", path |-> p, err |-> ""]
Err(e) == [tag |-> "Err", path |-> <<>>, err |-> e]

NoDesc == [data_type |-> "", dimensions |-> <<>>]
NoText == Text("")
NoPrev == [tag |-> "none", overwrite |-> FALSE, pixels |-> ""]

Op(name, h, k, ok) == [op |-> name, hdu |-> h, key |-> k, ok |-> ok]

(* MetaKeys without the GAIN_MAX record *)
MetaKeys_MissingGainMax(img, cam, stamp, millis) ==
    <<  <<"CAMERA", Text(cam)>>, <<"DATE-OBS", stamp>>, <<"TIMESTAMP", IntVal(millis)>> >>
    \o (IF metadata(img) # <<>>
        THEN LET meta == metadata(img)[1] IN
             << <<"XBINNING", IntVal(meta.binning[1])>>,
                <<"YBINNING", IntVal(meta.binning[2])>>,
                <<"XPIXSZ", IntVal(meta.pixel_size[1])>>,
                <<"YPIXSZ", IntVal(meta.pixel_size[2])>>,
                <<"EXPTIME", as_secs_f64(meta.exposure)>>,
                <<"CCD-TEMP", IntVal(meta.temperature)>>,
                <<"XORIGIN", IntVal(meta.origin[1])>>,
                <<"YORIGIN", IntVal(meta.origin[2])>>,
                <<"OFFSET", IntVal(meta.offset)>>,
                <<"GAIN", IntVal(meta.gain[1])>>,
                <<"GAIN_MIN", IntVal(meta.gain[2])>> >>
        ELSE << >>)

(* The header records of lines 165-184, in the order of the statements:    *)
(* CAMERA, DATE-OBS and TIMESTAMP always, the others with metadata only.   *)
MetaKeys(img, cam, stamp, millis) ==
    <<  <<"CAMERA", Text(cam)>>, <<"DATE-OBS", stamp>>, <<"TIMESTAMP", IntVal(millis)>> >>
    \o (IF metadata(img) # <<>>
        THEN LET meta == metadata(img)[1] IN
             << <<"XBINNING", IntVal(meta.binning[1])>>,
                <<"YBINNING", IntVal(meta.binning[2])>>,
                <<"XPIXSZ", IntVal(meta.pixel_size[1])>>,
                <<"YPIXSZ", IntVal(meta.pixel_size[2])>>,
                <<"EXPTIME", as_secs_f64(meta.exposure)>>,
                <<"CCD-TEMP", IntVal(meta.temperature)>>,
                <<"XORIGIN", IntVal(meta.origin[1])>>,
                <<"YORIGIN", IntVal(meta.origin[2])>>,
                <<"OFFSET", IntVal(meta.offset)>>,
                <<"GAIN", IntVal(meta.gain[1])>>,
                <<"GAIN_MIN", IntVal(meta.gain[2])>>,
                <<"GAIN_MAX", IntVal(meta.gain[3])>> >>
        ELSE << >>)

locals == <<cameraname, timestamp, ts, img_desc, path, fptr, hdu, idx>>
args == <<dest, compress, calls, self, overwrite, fs0, prev>>

(* The caller calls savefits(&img, dest, compress, ow): it saves its images *)
(* to one destination with one compression mode, and saves again only      *)
(* while the environment has injected no fault.                            *)
Call(img, ow) ==
    /\ pc \in {"idle", "done"}
    /\ calls < MaxCalls
    /\ ~faulted
    /\ calls' = calls + 1
    /\ prev' = IF pc = "idle" THEN NoPrev
               ELSE [tag |-> result.tag, overwrite |-> overwrite,
                     pixels |-> self.pixels]
    /\ self' = img /\ overwrite' = ow
    /\ cameraname' = "" /\ timestamp' = NoText /\ ts' = 0
    /\ img_desc' = NoDesc /\ path' = <<>> /\ fptr' = NoFile /\ hdu' = 0 /\ idx' = 0
    /\ result' = NoResult /\ fs0' = fs /\ trace' = <<>> /\ removed' = {}
    /\ pc' = "check"
    /\ UNCHANGED <<fs, clock, dest, compress, faulted, size_out>>

(* CheckDirectory without the test of lines 95-97 *)
CheckDirectory_NoCheck ==
    /\ pc = "check"
    /\ result' = result
    /\ pc' = "timestamp"
    /\ UNCHANGED <<fs, clock, locals, args, trace, removed, faulted, size_out>>

(* lines 95-97 *)
CheckDirectory ==
    /\ pc = "check"
    /\ IF exists(fs, dest) /\ is_dir(fs, dest)
       THEN /\ result' = Err("Path is a directory")
            /\ pc' = "done"
       ELSE /\ result' = result
            /\ pc' = "timestamp"
    /\ UNCHANGED <<fs, clock, locals, args, trace, removed, faulted, size_out>>

(* lines 99-105: the time DATE-OBS is formatted from *)
FormatTimestamp ==
    /\ pc = "timestamp"
    /\ IF metadata(self) # <<>>
       THEN /\ timestamp' = format(metadata(self)[1].timestamp)
            /\ clock' = clock
       ELSE \E now \in Now(clock) :
            /\ clock' = now
            /\ timestamp' = format(now)
    /\ pc' = "ts"
    /\ UNCHANGED <<fs, cameraname, ts, img_desc, path, fptr, hdu, idx, args,
                   result, trace, removed, faulted, size_out>>

(* lines 106-119: cameraname and the milliseconds of TIMESTAMP *)
ComputeTs ==
    /\ pc = "ts"
    /\ IF metadata(self) # <<>>
       THEN LET meta == metadata(self)[1] IN
            /\ cameraname' = meta.camera_name
            /\ clock' = clock
            /\ IF duration_since_epoch_ok(meta.timestamp)
               THEN /\ ts' = as_millis(meta.timestamp)
                    /\ result' = result
                    /\ pc' = "remove"
               ELSE /\ ts' = ts
                    /\ result' = Err("SystemTimeError")
                    /\ pc' = "done"
       ELSE \E now \in Now(clock) :
            /\ cameraname' = "unknown"
            /\ clock' = now
            /\ ts' = IF duration_since_epoch_ok(now) THEN as_millis(now) ELSE 0
            /\ result' = result
            /\ pc' = "remove"
    /\ UNCHANGED <<fs, timestamp, img_desc, path, fptr, hdu, idx, args,
                   trace, removed, faulted, size_out>>

(* RemoveBase without the removal of line 129 *)
RemoveBase_NoRemove ==
    /\ pc = "remove"
    /\ img_desc' = [data_type |-> image_type(self), dimensions |-> image_size(self)]
    /\ path' = set_extension(dest, extension("None"))
    /\ pc' = "create"
    /\ UNCHANGED <<fs, removed, trace, result, faulted>>
    /\ UNCHANGED <<clock, cameraname, timestamp, ts, fptr, hdu, idx, args, size_out>>

(* RemoveBase with the removal of line 129 whatever `overwrite` is *)
RemoveBase_Always ==
    /\ pc = "remove"
    /\ img_desc' = [data_type |-> image_type(self), dimensions |-> image_size(self)]
    /\ path' = set_extension(dest, extension("None"))
    /\ IF exists(fs, path')
       THEN \E fault \in BOOLEAN :
            IF is_file(fs, path') /\ ~fault
            THEN /\ fs' = [fs EXCEPT ![path'] = Absent]
                 /\ removed' = removed \cup {path'}
                 /\ trace' = Append(trace, Op("remove_file", 0, "", TRUE))
                 /\ result' = result /\ faulted' = faulted
                 /\ pc' = "create"
            ELSE /\ fs' = fs /\ removed' = removed
                 /\ trace' = Append(trace, Op("remove_file", 0, "", FALSE))
                 /\ result' = Err("io")
                 /\ faulted' = (faulted \/ is_file(fs, path'))
                 /\ pc' = "done"
       ELSE /\ fs' = fs /\ removed' = removed /\ trace' = trace
            /\ result' = result /\ faulted' = faulted
            /\ pc' = "create"
    /\ UNCHANGED <<clock, cameraname, timestamp, ts, fptr, hdu, idx, args, size_out>>

(* lines 121-130: the image description, the base path, and the removal of *)
(* the file at the base path when overwrite is set                         *)
RemoveBase ==
    /\ pc = "remove"
    /\ img_desc' = [data_type |-> image_type(self), dimensions |-> image_size(self)]
    /\ path' = set_extension(dest, extension("None"))
    /\ IF overwrite /\ exists(fs, path')
       THEN \E fault \in BOOLEAN :
            IF is_file(fs, path') /\ ~fault
            THEN /\ fs' = [fs EXCEPT ![path'] = Absent]
                 /\ removed' = removed \cup {path'}
                 /\ trace' = Append(trace, Op("remove_file", 0, "", TRUE))
                 /\ result' = result /\ faulted' = faulted
                 /\ pc' = "create"
            ELSE /\ fs' = fs /\ removed' = removed
                 /\ trace' = Append(trace, Op("remove_file", 0, "", FALSE))
                 /\ result' = Err("io")
                 /\ faulted' = (faulted \/ is_file(fs, path'))
                 /\ pc' = "done"
       ELSE /\ fs' = fs /\ removed' = removed /\ trace' = trace
            /\ result' = result /\ faulted' = faulted
            /\ pc' = "create"
    /\ UNCHANGED <<clock, cameraname, timestamp, ts, fptr, hdu, idx, args, size_out>>

(* CreateFile without line 131: the file is created at the base path *)
CreateFile_KeepsBasePath ==
    /\ pc = "create"
    /\ path' = path
    /\ \E fault \in BOOLEAN, honoured \in BOOLEAN :
       LET builder == [path |-> path', overwrite |-> overwrite,
                       desc |-> IF compress = "None" THEN <<img_desc>> ELSE << >>,
                       open |-> FALSE]
           disk == DiskName(path')
       IN IF CanCreate(fs, builder, honoured) /\ ~fault
          THEN /\ fptr' = [builder EXCEPT !.open = TRUE]
               /\ fs' = [fs EXCEPT ![disk] = File(<<NewHdu("PRIMARY", builder.desc)>>)]
               /\ trace' = Append(trace, Op("create", 0, "", TRUE))
               /\ result' = result /\ faulted' = faulted
               /\ pc' = "primary_hdu"
          ELSE /\ fptr' = builder
               /\ fs' = fs
               /\ trace' = Append(trace, Op("create", 0, "", FALSE))
               /\ result' = Err("fits")
               /\ faulted' = (faulted \/ CanCreate(fs, builder, honoured))
               /\ pc' = "done"
    /\ UNCHANGED <<clock, cameraname, timestamp, ts, img_desc, hdu, idx, args,
                   removed, size_out>>

(* lines 131-141: the final path, the builder (overwrite, custom primary)  *)
(* and open(), which creates the file with its primary HDU                 *)
CreateFile ==
    /\ pc = "create"
    /\ path' = set_extension(path, extension(compress))
    /\ \E fault \in BOOLEAN, honoured \in BOOLEAN :
       LET builder == [path |-> path', overwrite |-> overwrite,
                       desc |-> IF compress = "None" THEN <<img_desc>> ELSE << >>,
                       open |-> FALSE]
           disk == DiskName(path')
       IN IF CanCreate(fs, builder, honoured) /\ ~fault
          THEN /\ fptr' = [builder EXCEPT !.open = TRUE]
               /\ fs' = [fs EXCEPT ![disk] = File(<<NewHdu("PRIMARY", builder.desc)>>)]
               /\ trace' = Append(trace, Op("create", 0, "", TRUE))
               /\ result' = result /\ faulted' = faulted
               /\ pc' = "primary_hdu"
          ELSE /\ fptr' = builder
               /\ fs' = fs
               /\ trace' = Append(trace, Op("create", 0, "", FALSE))
               /\ result' = Err("fits")
               /\ faulted' = (faulted \/ CanCreate(fs, builder, honoured))
               /\ pc' = "done"
    /\ UNCHANGED <<clock, cameraname, timestamp, ts, img_desc, hdu, idx, args,
                   removed, size_out>>

(* The file on disk behind the open FitsFile *)
Disk == DiskName(fptr.path)

(* WriterCall with the error dropped instead of returned *)
WriterCall_IgnoresError(name, h, k, newfs, next) ==
    \E fault \in BOOLEAN :
       /\ fs' = IF fault THEN fs ELSE newfs
       /\ trace' = Append(trace, Op(name, h, k, ~fault))
       /\ result' = result
       /\ faulted' = (faulted \/ fault)
       /\ pc' = next

(* One call into the writer on the open file: it either takes effect       *)
(* (the file becomes `newfs`, the call goes on at `next`) or fails, and    *)
(* the `?` returns the error.                                              *)
WriterCall(name, h, k, newfs, next) ==
    \E fault \in BOOLEAN :
       IF ~fault
       THEN /\ fs' = newfs
            /\ trace' = Append(trace, Op(name, h, k, TRUE))
            /\ result' = result /\ faulted' = faulted
            /\ pc' = next
       ELSE /\ fs' = fs
            /\ trace' = Append(trace, Op(name, h, k, FALSE))
            /\ result' = Err("fits")
            /\ faulted' = TRUE
            /\ pc' = "done"

(* PrimaryHdu going on to the marker records whatever the mode is *)
PrimaryHdu_AlwaysMarkers ==
    /\ pc = "primary_hdu"
    /\ WriterCall("primary_hdu", 1, "", fs, "compressed_image")
    /\ hdu' = IF pc' = "done" THEN hdu ELSE 1
    /\ UNCHANGED <<clock, cameraname, timestamp, ts, img_desc, path, fptr, idx,
                   args, removed, size_out>>

(* lines 143-146: fptr.primary_hdu() *)
PrimaryHdu ==
    /\ pc = "primary_hdu"
    /\ WriterCall("primary_hdu", 1, "", fs,
                  IF compress = "None" THEN "write_image" ELSE "compressed_image")
    /\ hdu' = IF pc' = "done" THEN hdu ELSE 1
    /\ UNCHANGED <<clock, cameraname, timestamp, ts, img_desc, path, fptr, idx,
                   args, removed, size_out>>

(* line 147 *)
WriteCompressedImage ==
    /\ pc = "compressed_image"
    /\ WriterCall("write_key", hdu, "COMPRESSED_IMAGE",
                  write_key(fs, Disk, hdu, "COMPRESSED_IMAGE", Text("T")),
                  "compression_algo")
    /\ UNCHANGED <<clock, locals, args, removed, size_out>>

(* line 148 *)
WriteCompressionAlgo ==
    /\ pc = "compression_algo"
    /\ WriterCall("write_key", hdu, "COMPRESSION_ALGO",
                  write_key(fs, Disk, hdu, "COMPRESSION_ALGO", Text(to_string(compress))),
                  "create_image")
    /\ UNCHANGED <<clock, locals, args, removed, size_out>>

(* CreateImage with `hdu` left at the primary HDU *)
CreateImage_KeepsPrimary ==
    /\ pc = "create_image"
    /\ WriterCall("create_image", Len(fs[Disk].hdus) + 1, "",
                  create_image(fs, Disk, "IMAGE", img_desc), "write_image")
    /\ hdu' = hdu
    /\ UNCHANGED <<clock, cameraname, timestamp, ts, img_desc, path, fptr, idx,
                   args, removed, size_out>>

(* line 149: fptr.create_image("IMAGE", &img_desc) *)
CreateImage ==
    /\ pc = "create_image"
    /\ WriterCall("create_image", Len(fs[Disk].hdus) + 1, "",
                  create_image(fs, Disk, "IMAGE", img_desc), "write_image")
    /\ hdu' = IF pc' = "done" THEN hdu ELSE Len(fs'[Disk].hdus)
    /\ UNCHANGED <<clock, cameraname, timestamp, ts, img_desc, path, fptr, idx,
                   args, removed, size_out>>

(* lines 152-163: hdu.write_image(&mut fptr, p.inner_pixels()), the same   *)
(* call for each of the ten variants                                       *)
WriteImage ==
    /\ pc = "write_image"
    /\ self.variant \in Variants
    /\ WriterCall("write_image", hdu, "",
                  write_image(fs, Disk, hdu, inner_pixels(self)), "meta_key")
    /\ UNCHANGED <<clock, locals, args, removed, size_out>>

(* lines 165-184: the next hdu.write_key of the metadata records *)
WriteMetaKey ==
    /\ pc = "meta_key"
    /\ LET keys == MetaKeys(self, cameraname, timestamp, ts)
           kv == keys[idx + 1]
           more == idx + 1 < Len(keys)
           ext == IF metadata(self) # <<>>
                  THEN metadata(self)[1].extended_metadata ELSE << >>
       IN /\ WriterCall("write_key", hdu, kv[1],
                        write_key(fs, Disk, hdu, kv[1], kv[2]),
                        IF more THEN "meta_key"
                        ELSE IF Len(ext) > 0 THEN "ext_key" ELSE "return")
          /\ idx' = IF pc' = "done" THEN idx ELSE IF more THEN idx + 1 ELSE 0
    /\ UNCHANGED <<clock, cameraname, timestamp, ts, img_desc, path, fptr, hdu,
                   args, removed, size_out>>

(* lines 185-187: the next pair of meta.extended_metadata() *)
WriteExtKey ==
    /\ pc = "ext_key"
    /\ LET ext == metadata(self)[1].extended_metadata
           obj == ext[idx + 1]
           more == idx + 1 < Len(ext)
       IN /\ WriterCall("write_key", hdu, obj.name,
                        write_key(fs, Disk, hdu, obj.name, Text(obj.value)),
                        IF more THEN "ext_key" ELSE "return")
          /\ idx' = IF pc' = "done" THEN idx ELSE idx + 1
    /\ UNCHANGED <<clock, cameraname, timestamp, ts, img_desc, path, fptr, hdu,
                   args, removed, size_out>>

(* line 190: Ok(path) *)
Return ==
    /\ pc = "return"
    /\ result' = Ok(path)
    /\ pc' = "done"
    /\ UNCHANGED <<fs, clock, locals, args, trace, removed, faulted, size_out>>

---------------------------------------------------------------------------
(* The specification of savefits *)

NoImage == [variant |-> "ImageLuma8", width |-> 1, height |-> 1, pixels |-> "",
            meta |-> << >>]

(* The file system before the first call: empty, or with one entry at the  *)
(* destination or at its base path, a directory or a file of some other    *)
(* origin.  "..", the path without a file name, is a directory.            *)
Empty == [n \in Names |-> IF has_file_name(n) THEN Absent ELSE Dir]

InitFs ==
    {Empty} \cup
    { [Empty EXCEPT ![n] = e] :
        n \in {m \in {dest, set_extension(dest, extension("None"))} : has_file_name(m)},
        e \in {Dir, Foreign} }

Init ==
    /\ dest \in Paths
    /\ compress \in FitsCompression
    /\ fs \in InitFs
    /\ clock = 0
    /\ calls = 0
    /\ pc = "idle"
    /\ self = NoImage /\ overwrite = FALSE
    /\ cameraname = "" /\ timestamp = NoText /\ ts = 0
    /\ img_desc = NoDesc /\ path = << >> /\ fptr = NoFile /\ hdu = 0 /\ idx = 0
    /\ result = NoResult /\ fs0 = fs /\ trace = << >> /\ removed = {}
    /\ faulted = FALSE /\ prev = NoPrev
    /\ size_out = << >>

Next ==
    \/ \E img \in Images, ow \in BOOLEAN : Call(img, ow)
    \/ CheckDirectory
    \/ FormatTimestamp
    \/ ComputeTs
    \/ RemoveBase
    \/ CreateFile
    \/ PrimaryHdu
    \/ WriteCompressedImage
    \/ WriteCompressionAlgo
    \/ CreateImage
    \/ WriteImage
    \/ WriteMetaKey
    \/ WriteExtKey
    \/ Return

Spec == Init /\ [][Next]_vars

---------------------------------------------------------------------------
(* The specification of image_size: every variant, width and height, with  *)
(* two different pixel buffers.                                            *)

SizeImages ==
    [variant : Variants, width : 1..MaxW, height : 1..MaxH, pixels : {"A", "B"},
     meta : {<< >>}]

SizeInit ==
    /\ self \in SizeImages
    /\ pc = "size"
    /\ dest = <<"out">> /\ compress = "None" /\ fs = Empty
    /\ clock = 0 /\ calls = 0 /\ overwrite = FALSE
    /\ cameraname = "" /\ timestamp = NoText /\ ts = 0
    /\ img_desc = NoDesc /\ path = << >> /\ fptr = NoFile /\ hdu = 0 /\ idx = 0
    /\ result = NoResult /\ fs0 = fs /\ trace = << >> /\ removed = {}
    /\ faulted = FALSE /\ prev = NoPrev
    /\ size_out = << >>

(* self.image_size() *)
ApplyImageSize ==
    /\ pc = "size"
    /\ size_out' = image_size(self)
    /\ pc' = "sized"
    /\ UNCHANGED <<fs, clock, locals, args, result, trace, removed, faulted>>

SizeNext == ApplyImageSize

SizeSpec == SizeInit /\ [][SizeNext]_vars

---------------------------------------------------------------------------
(* What the properties below speak of *)

(* the base path: the destination with the extension "fits" forced on it *)
Base == set_extension(dest, "fits")

Succeeded == pc = "done" /\ result.tag = "Ok"

(* the file a successful call wrote *)
Written == fs[DiskName(result.path)]

KeyNames(h) == { h.keys[i][1] : i \in DOMAIN h.keys }
KeyValue(h, k) == h.keys[CHOOSE i \in DOMAIN h.keys : h.keys[i][1] = k][2]

MarkerKeys == {"COMPRESSED_IMAGE", "COMPRESSION_ALGO"}
AlwaysKeys == {"CAMERA", "DATE-OBS", "TIMESTAMP"}
OptionalKeys == {"XBINNING", "YBINNING", "XPIXSZ", "YPIXSZ", "EXPTIME", "CCD-TEMP",
                 "XORIGIN", "YORIGIN", "OFFSET", "GAIN", "GAIN_MIN", "GAIN_MAX"}
ExtendedKeys(img) ==
    IF img.meta = << >> THEN {}
    ELSE { img.meta[1].extended_metadata[i].name :
              i \in DOMAIN img.meta[1].extended_metadata }
MetadataKeys(img) ==
    AlwaysKeys \cup (IF img.meta = << >> THEN {} ELSE OptionalKeys \cup ExtendedKeys(img))

(* the HDUs of a file that hold pixel data *)
PixelHdus(f) == { i \in DOMAIN f.hdus : f.hdus[i].data # "" }

---------------------------------------------------------------------------
(* C1: a call whose destination exists and is a directory returns the      *)
(* error "Path is a directory" and changes nothing in the file system: no  *)
(* file is removed, created or written, for every image, compression mode  *)
(* and overwrite flag.                                                     *)
C1_DirectoryConflict ==
    (pc # "idle" /\ is_dir(fs0, dest)) =>
        /\ pc \in {"check", "done"}
        /\ pc = "done" => result = Err("Path is a directory")
        /\ fs = fs0
        /\ removed = {}
        /\ trace = << >>

(* C1: a compressed save with overwrite to a directory *)
C1_Witness ==
    /\ pc = "done" /\ is_dir(fs0, dest) /\ has_file_name(dest)
    /\ overwrite /\ compress # "None"
    /\ result = Err("Path is a directory")
    /\ fs = fs0

(* C3: after a successful call with a compression mode other than None the *)
(* primary HDU holds exactly the two marker records                        *)
(* COMPRESSED_IMAGE = "T" and COMPRESSION_ALGO = the mode's name and no    *)
(* pixel data, and a second HDU named "IMAGE" holds the pixel data and     *)
(* every metadata record; no metadata record is in the primary HDU.        *)
C3_DualHdu ==
    (Succeeded /\ compress # "None") =>
        /\ Len(Written.hdus) = 2
        /\ Written.hdus[1].keys =
              << <<"COMPRESSED_IMAGE", Text("T")>>,
                 <<"COMPRESSION_ALGO", Text(to_string(compress))>> >>
        /\ Written.hdus[1].data = ""
        /\ Written.hdus[1].desc = << >>
        /\ Written.hdus[2].name = "IMAGE"
        /\ Written.hdus[2].data = self.pixels
        /\ KeyNames(Written.hdus[2]) = MetadataKeys(self)
        /\ KeyNames(Written.hdus[1]) \cap MetadataKeys(self) = {}

(* C3: a successful Hsmooth save of an image with metadata *)
C3_Witness ==
    /\ Succeeded /\ compress = "Hsmooth" /\ self.meta # << >>
    /\ Len(Written.hdus) = 2
    /\ KeyValue(Written.hdus[1], "COMPRESSION_ALGO") = Text("hscompress")
    /\ "EXT2" \in KeyNames(Written.hdus[2])

(* C4: after a successful call with mode None the file has exactly one     *)
(* HDU, the primary one, which holds the pixel data and every metadata     *)
(* record; there is no marker record and no "IMAGE" HDU.                   *)
C4_SingleHdu ==
    (Succeeded /\ compress = "None") =>
        /\ Len(Written.hdus) = 1
        /\ Written.hdus[1].name = "PRIMARY"
        /\ Written.hdus[1].data = self.pixels
        /\ KeyNames(Written.hdus[1]) = MetadataKeys(self)
        /\ KeyNames(Written.hdus[1]) \cap MarkerKeys = {}
        /\ \A i \in DOMAIN Written.hdus : Written.hdus[i].name # "IMAGE"

(* C4: a successful uncompressed save of an image with metadata *)
C4_Witness ==
    /\ Succeeded /\ compress = "None" /\ self.meta # << >>
    /\ Len(Written.hdus) = 1
    /\ Written.hdus[1].data = "A"
    /\ "GAIN_MAX" \in KeyNames(Written.hdus[1])

(* C5: after every successful call the HDU that holds the pixel data has   *)
(* CAMERA, DATE-OBS and TIMESTAMP; without metadata CAMERA is "unknown"    *)
(* and no optional record is there; with metadata all the optional records *)
(* and the extended pairs are there.                                       *)
C5_DefaultMetadata ==
    Succeeded =>
        /\ Cardinality(PixelHdus(Written)) = 1
        /\ \A i \in PixelHdus(Written) :
           LET h == Written.hdus[i] IN
           /\ AlwaysKeys \subseteq KeyNames(h)
           /\ self.meta = << >> =>
                 /\ KeyValue(h, "CAMERA") = Text("unknown")
                 /\ KeyNames(h) \cap OptionalKeys = {}
                 /\ KeyNames(h) = AlwaysKeys
           /\ self.meta # << >> =>
                 /\ OptionalKeys \subseteq KeyNames(h)
                 /\ ExtendedKeys(self) \subseteq KeyNames(h)

(* C5: a successful save of an image without metadata *)
C5_Witness ==
    /\ Succeeded /\ self.meta = << >>
    /\ \E i \in PixelHdus(Written) :
          /\ KeyValue(Written.hdus[i], "CAMERA") = Text("unknown")
          /\ KeyNames(Written.hdus[i]) = AlwaysKeys

(* The channels of each variant, as the dimension-vector law states them *)
C6_Channels ==
    [v \in Variants |->
        CASE v \in {"ImageLuma8", "ImageLuma16"} -> 1
          [] v \in {"ImageLumaA8", "ImageLumaA16"} -> 2
          [] v \in {"ImageRgb8", "ImageRgb16", "ImageRgb32F"} -> 3
          [] v \in {"ImageRgba8", "ImageRgba16", "ImageRgba32F"} -> 4]

(* C6: image_size returns [height, width] exactly for the variants with    *)
(* one channel (ImageLuma8, ImageLuma16) and [height, width, channels]     *)
(* for the others, with 2 channels for mono+alpha, 3 for RGB and 4 for     *)
(* RGBA, the float variants included, whatever the pixel values.           *)
C6_DimensionVector ==
    pc = "sized" =>
        /\ (Len(size_out) = 2) <=> (C6_Channels[self.variant] = 1)
        /\ C6_Channels[self.variant] = 1 => size_out = <<self.height, self.width>>
        /\ C6_Channels[self.variant] # 1 =>
              size_out = <<self.height, self.width, C6_Channels[self.variant]>>

(* C6: image_size applied to a 1 x 2 16-bit mono+alpha image *)
C6_Witness ==
    /\ pc = "sized" /\ self.variant = "ImageLumaA16" /\ self.pixels = "B"
    /\ self.width = 1 /\ self.height = 2
    /\ size_out = <<2, 1, 2>>

(* A call with overwrite = true has returned, the call before it, to the   *)
(* same destination with the same mode and overwrite = true, succeeded,    *)
(* and the environment injected no file-system or writer fault.            *)
C2_SecondCall ==
    /\ pc = "done" /\ calls >= 2
    /\ prev.tag = "Ok" /\ prev.overwrite /\ overwrite
    /\ ~faulted

C7_Millis(d) == d.n * (MicrosPerSec \div MicrosPerMilli) + d.f \div MicrosPerMilli

(* C7: the DATE-OBS and TIMESTAMP records of one call denote the same      *)
(* instant: TIMESTAMP is the milliseconds of the instant DATE-OBS shows,   *)
(* which is the metadata's timestamp when the image carries metadata.      *)
C7_SameInstant ==
    Succeeded =>
        \A i \in PixelHdus(Written) :
           LET h == Written.hdus[i] IN
           /\ C7_Millis(KeyValue(h, "DATE-OBS")) = KeyValue(h, "TIMESTAMP").n
           /\ self.meta # << >> =>
                 KeyValue(h, "DATE-OBS") = format(self.meta[1].timestamp)

(* A file name has an extension when it has a dot that is not its first    *)
(* character; without it, the name ends before that dot.                   *)
C8_HasExtension(p) == Len(p) >= 2 /\ SubSeq(p, 1, Len(p) - 1) # <<"">>
C8_WithoutExtension(p) == IF C8_HasExtension(p) THEN SubSeq(p, 1, Len(p) - 1) ELSE p

(* C8: a successful call returns the destination with its extension, if   *)
(* it has one, replaced by the extension of the compression mode, which is *)
(* the base path with that extension applied; it is the path the file was  *)
(* created with; for mode None and destination out it is out.fits.         *)
C8_ReturnedPath ==
    Succeeded =>
        /\ result.path = Append(C8_WithoutExtension(dest), extension(compress))
        /\ result.path = Append(C8_WithoutExtension(Base), extension(compress))
        /\ result.path = fptr.path
        /\ \E i \in DOMAIN trace : trace[i].op = "create" /\ trace[i].ok
        /\ is_file(fs, DiskName(result.path))
        /\ (dest = <<"out">> /\ compress = "None") => result.path = <<"out", "fits">>

(* C8: a successful Rice save to out.tar *)
C8_Witness ==
    /\ Succeeded /\ dest = <<"out", "tar">> /\ compress = "Rice"
    /\ result.path = <<"out", "fits[compress R]">>
    /\ is_file(fs, <<"out", "fits">>)

(* The order of the steps of one call, as stated *)
C9_OptionalSeq == <<"XBINNING", "YBINNING", "XPIXSZ", "YPIXSZ", "EXPTIME", "CCD-TEMP",
                    "XORIGIN", "YORIGIN", "OFFSET", "GAIN", "GAIN_MIN", "GAIN_MAX">>

C9_KeySeq(img) ==
    <<"CAMERA", "DATE-OBS", "TIMESTAMP">> \o
    (IF img.meta = << >> THEN << >>
     ELSE C9_OptionalSeq \o
          [i \in DOMAIN img.meta[1].extended_metadata |->
              img.meta[1].extended_metadata[i].name])

C9_Step(name, h, k) == [op |-> name, hdu |-> h, key |-> k]

C9_Expected(img, c) ==
    LET h == IF c = "None" THEN 1 ELSE 2 IN
    << C9_Step("create", 0, "") >> \o
    (IF c = "None" THEN << >>
     ELSE << C9_Step("write_key", 1, "COMPRESSED_IMAGE"),
             C9_Step("write_key", 1, "COMPRESSION_ALGO"),
             C9_Step("create_image", 2, "") >>) \o
    << C9_Step("write_image", h, "") >> \o
    [i \in DOMAIN C9_KeySeq(img) |-> C9_Step("write_key", h, C9_KeySeq(img)[i])]

C9_Listed(e) == e.op \notin {"remove_file", "primary_hdu"}
C9_Steps == SelectSeq(trace, C9_Listed)

(* C9: the writer calls of one call come in the order: file create, the    *)
(* two marker records in the primary HDU (modes other than None), creation *)
(* of the "IMAGE" HDU (modes other than None), the pixel write, CAMERA,    *)
(* DATE-OBS, TIMESTAMP, the optional records, the extended pairs in the    *)
(* caller's order; a call that fails is the last one, it is not repeated,  *)
(* and the call returns an error.                                          *)
C9_StepOrder ==
    LET expected == C9_Expected(self, compress)
        steps == C9_Steps
    IN /\ Len(steps) <= Len(expected)
       /\ [i \in DOMAIN steps |-> C9_Step(steps[i].op, steps[i].hdu, steps[i].key)]
             = SubSeq(expected, 1, Len(steps))
       /\ \A i \in DOMAIN trace :
             ~trace[i].ok => (i = Len(trace) /\ pc = "done" /\ result.tag = "Err")
       /\ Succeeded => Len(steps) = Len(expected)

(* C9: a Plio save that failed at the first extended pair *)
C9_Witness ==
    /\ pc = "done" /\ result = Err("fits")
    /\ compress = "Plio" /\ self.meta # << >>
    /\ Len(trace) > 0
    /\ trace[Len(trace)] = Op("write_key", 2, "EXT1", FALSE)
    /\ "EXT1" \notin KeyNames(fs[Base].hdus[2])
    /\ "GAIN_MAX" \in KeyNames(fs[Base].hdus[2])

(* C10: a call with overwrite = false removes no file and does not ask the *)
(* writer to overwrite; a file that was at the base path before the call   *)
(* is there unchanged at every point of the call, whether it succeeds or   *)
(* fails.  The only name a call removes is the base path, and only with    *)
(* overwrite = true.                                                       *)
C10_NoOverwrite ==
    pc # "idle" =>
        /\ removed \subseteq {Base}
        /\ removed # {} => overwrite
        /\ \A n \in Names : (is_file(fs0, n) /\ ~is_file(fs, n)) => (n = Base /\ overwrite)
        /\ ~overwrite =>
              /\ removed = {}
              /\ ~fptr.overwrite
              /\ is_file(fs0, Base) => fs[Base] = fs0[Base]

(* C10: a save without overwrite onto the file an earlier save wrote *)
C10_Witness ==
    /\ pc = "done" /\ ~overwrite /\ calls = 2 /\ prev.tag = "Ok"
    /\ is_file(fs0, Base) /\ PixelHdus(fs0[Base]) # {}
    /\ fs[Base] = fs0[Base]
    /\ result.tag = "Err"
    /\ \E i \in DOMAIN trace : trace[i].op = "create"

===========================================================================
